---- MODULE Spec2Model ----
(***************************************************************************)
(* WorldSim backend: the resource ledger (app/core/resources.py), the      *)
(* learner and regional agent (app/agents/rl_agent.py) and the simulation  *)
(* engine (app/simulation/engine.py).                                      *)
(*                                                                         *)
(* Number representation. The program computes in Python floats; the       *)
(* model computes exactly, in fixed point:                                 *)
(*   resource stocks and amounts   tenths of a unit    (2000.0 -> 20000)   *)
(*   development_level             twentieths          (0.05   -> 1)       *)
(*   growth_rate, stability,                                               *)
(*   disaster_risk                 hundredths          (0.02   -> 2)       *)
(*   severity, trade strength      tenths              (1.5    -> 15)      *)
(*   rewards, q-values, losses     1/20000             (10.0   -> 200000)  *)
(*   epsilon, uniform draws        1/10^9              (1.0    -> 10^9)    *)
(*   state-vector components       thousandths         (1.0    -> 1000)    *)
(* population is an integer in the program and in the model. int(x) of the *)
(* program truncates toward zero: TruncDiv.                                *)
(***************************************************************************)
EXTENDS Integers, Sequences, FiniteSets, TLC

VARIABLES
    pool,           \* a ResourcePool driven directly by deplete / replenish
    poolCall,       \* the last call made on pool and its arguments
    rewardCall,     \* one calculate_reward call: its arguments and result
    dqn,            \* a DQNAgent driven directly by remember / act / replay
    dqnCall,        \* the last call made on dqn or regionalAgent, its arguments and result
    regionalAgent,  \* a RegionalAgent driven directly by learn
    num_regions,    \* WorldSimulation.num_regions
    current_cycle,  \* WorldSimulation.current_cycle
    regions,        \* WorldSimulation.regions: region id -> RegionState
    agents,         \* WorldSimulation.agents: region id -> RegionalAgent
    trade_network,  \* WorldSimulation.trade_network
    event_history,  \* WorldSimulation.event_history
    cycle_history,  \* WorldSimulation.cycle_history
    stepResult,     \* how the last step() call ended: what it raised or returned
    stepCalls,      \* the number of step() calls made so far
    twin,           \* a second WorldSimulation built with the same seed
    call,           \* the last direct call or request: its arguments and result
    loop            \* the server's event loop: requests waiting, handler running

poolVars == <<pool, poolCall>>
rewardVars == <<rewardCall>>
dqnVars == <<dqn, dqnCall, regionalAgent>>

worldVars ==
    <<num_regions, current_cycle, regions, agents, trade_network, event_history,
      cycle_history, stepResult, stepCalls>>

vars ==
    <<pool, poolCall, rewardCall, dqn, dqnCall, regionalAgent, num_regions, current_cycle, regions,
      agents, trade_network, event_history, cycle_history, stepResult, stepCalls, twin,
      call, loop>>

---------------------------------------------------------------------------
(* Arithmetic helpers *)

Max(a, b) == IF a >= b THEN a ELSE b

Min(a, b) == IF a <= b THEN a ELSE b

Abs(a) == IF a >= 0 THEN a ELSE -a

\* Python int(a / b) for b > 0: the quotient truncated toward zero.
TruncDiv(a, b) == IF a >= 0 THEN a \div b ELSE -((-a) \div b)

\* np.clip(x, lo, hi)
Clip(x, lo, hi) == Max(lo, Min(hi, x))

---------------------------------------------------------------------------
(* ResourcePool, resources.py *)

\* Capacity fields of the dataclass, in tenths.
max_water == 20000
max_food == 20000
max_energy == 20000
max_land == 10000

\* ResourcePool(water, food, energy, land) followed by __post_init__:
\* each stock is capped at its maximum (and not raised to 0).
NewPool(w, f, e, l) ==
    [water |-> Min(w, max_water), food |-> Min(f, max_food),
     energy |-> Min(e, max_energy), land |-> Min(l, max_land)]

\* A plausible slip: the subtraction without the clamp at 0.
DepleteUnclamped(p, w, f, e, l) ==
    [water |-> p.water - w, food |-> p.food - f,
     energy |-> p.energy - e, land |-> p.land - l]

\* ResourcePool.deplete
deplete(p, w, f, e, l) ==
    [water |-> Max(0, p.water - w), food |-> Max(0, p.food - f),
     energy |-> Max(0, p.energy - e), land |-> Max(0, p.land - l)]

\* ResourcePool.replenish
replenish(p, w, f, e, l) ==
    [water |-> Min(max_water, p.water + w), food |-> Min(max_food, p.food + f),
     energy |-> Min(max_energy, p.energy + e), land |-> Min(max_land, p.land + l)]

\* A plausible slip: the thresholds read as "at most 100".
IsCriticalAtOrBelow(p) == p.water <= 1000 \/ p.food <= 1000 \/ p.energy <= 1000

\* ResourcePool.is_critical: 100 units are 1000 tenths.
is_critical(p) == p.water < 1000 \/ p.food < 1000 \/ p.energy < 1000

\* ResourcePool.get_total_value
get_total_value(p) == p.water + p.food + p.energy + p.land * 10

PoolWithinCaps(p) ==
    /\ 0 <= p.water /\ p.water <= max_water
    /\ 0 <= p.food /\ p.food <= max_food
    /\ 0 <= p.energy /\ p.energy <= max_energy
    /\ 0 <= p.land /\ p.land <= max_land

\* Starting stocks tried for a pool (tenths); 25000 is capped by __post_init__.
PoolStartStocks == {0, 10000, 25000}

\* Non-negative amounts passed to deplete / replenish (tenths).
PoolAmounts == {0, 8000, 25000}
PoolSmallAmounts == {0, 8000}

NoPoolCall == [op |-> "new", water |-> 0, food |-> 0, energy |-> 0, land |-> 0]

PoolInit ==
    /\ \E w \in PoolStartStocks, f \in PoolStartStocks, l \in {0, 10000} :
           pool = NewPool(w, f, 10000, l)
    /\ poolCall = NoPoolCall

PoolIdle ==
    /\ pool = NewPool(10000, 10000, 10000, 10000)
    /\ poolCall = NoPoolCall

PoolDeplete ==
    \E w \in PoolAmounts, f \in PoolAmounts, e \in PoolSmallAmounts, l \in PoolSmallAmounts :
        /\ pool' = deplete(pool, w, f, e, l)
        /\ poolCall' = [op |-> "deplete", water |-> w, food |-> f,
                        energy |-> e, land |-> l]
        /\ UNCHANGED <<rewardVars, dqnVars, worldVars, twin, call, loop>>

PoolReplenish ==
    \E w \in PoolAmounts, f \in PoolAmounts, e \in PoolSmallAmounts, l \in PoolSmallAmounts :
        /\ pool' = replenish(pool, w, f, e, l)
        /\ poolCall' = [op |-> "replenish", water |-> w, food |-> f,
                        energy |-> e, land |-> l]
        /\ UNCHANGED <<rewardVars, dqnVars, worldVars, twin, call, loop>>

(* is_critical called on a pool whose stocks move around 100 *)

\* Bound on the calls of a run.
MaxCriticalCalls == 4

\* Starting stocks and amounts tried (tenths): one tenth either side of 100.
CriticalStartStocks == {999, 1000}
CriticalAmounts == {0, 1}

CriticalInit ==
    /\ \E w \in CriticalStartStocks, f \in CriticalStartStocks,
          e \in CriticalStartStocks, l \in {0, 10000} : pool = NewPool(w, f, e, l)
    /\ poolCall = [op |-> "new", log |-> << >>, n |-> 0]

CriticalDeplete ==
    /\ poolCall.n < MaxCriticalCalls
    /\ \E w \in CriticalAmounts, f \in CriticalAmounts, e \in CriticalAmounts :
           pool' = deplete(pool, w, f, e, 0)
    /\ poolCall' = [poolCall EXCEPT !.op = "deplete", !.n = @ + 1]
    /\ UNCHANGED <<rewardVars, dqnVars, worldVars, twin, call, loop>>

CriticalReplenish ==
    /\ poolCall.n < MaxCriticalCalls
    /\ \E w \in CriticalAmounts, f \in CriticalAmounts, e \in CriticalAmounts :
           pool' = replenish(pool, w, f, e, 0)
    /\ poolCall' = [poolCall EXCEPT !.op = "replenish", !.n = @ + 1]
    /\ UNCHANGED <<rewardVars, dqnVars, worldVars, twin, call, loop>>

\* pool.is_critical(): the value returned is appended to the log of returns.
IsCritical ==
    /\ poolCall.n < MaxCriticalCalls
    /\ poolCall' = [op |-> "is_critical", log |-> Append(poolCall.log, is_critical(pool)),
                    n |-> poolCall.n + 1]
    /\ UNCHANGED <<pool, rewardVars, dqnVars, worldVars, twin, call, loop>>

---------------------------------------------------------------------------
(* RegionalAgent.calculate_reward, rl_agent.py *)

\* The starvation penalty, in whole reward units.
starvation_penalty(curr) ==
    LET p1 == IF curr.food < 1000 THEN -5 ELSE 0
    IN  IF curr.energy < 1000 THEN p1 - 3 ELSE p1

\* A plausible slip: the energy branch assigns instead of subtracting.
CalculateRewardAssignsPenalty(curr, stability, population) ==
    LET pen == IF curr.energy < 1000 THEN -3
               ELSE IF curr.food < 1000 THEN -5 ELSE 0
        total == (curr.water + curr.food + curr.energy) + 400 * stability
                 + Min(20 * population, 10000) + 20000 * pen
    IN  Clip(total, -200000, 200000)

\* A plausible slip: the result returned without np.clip.
CalculateRewardUnclipped(curr, stability, population) ==
    (curr.water + curr.food + curr.energy) + 400 * stability
    + Min(20 * population, 10000) + 20000 * starvation_penalty(curr)

\* calculate_reward(prev, curr, stability, population) in 1/20000 units; prev
\* is not read by the code. With w, f, e in tenths and stability in hundredths:
\*   resource_health * 3 = (w + f + e) / 2000   -> (w + f + e)      /20000
\*   stability * 2                              -> 400 * stability  /20000
\*   min(population / 500, 1) * 0.5             -> min(20 * population, 10000)
calculate_reward(curr, stability, population) ==
    LET resource_health3 == curr.water + curr.food + curr.energy
        stability_reward == 400 * stability
        pop_reward == Min(20 * population, 10000)
        total_reward == resource_health3 + stability_reward + pop_reward
                        + 20000 * starvation_penalty(curr)
    IN  Clip(total_reward, -200000, 200000)

\* Arguments tried: zero, negative, at and around the thresholds, above cap.
RewardStocks == {-500000, 0, 999, 1000, 20000, 900000}
RewardStabilities == {-1000, 0, 80, 1000}
RewardPopulations == {-1000, 0, 100, 900}

RewardArgs ==
    [water : {-500000, 0, 20000}, food : RewardStocks, energy : RewardStocks,
     stability : RewardStabilities, population : RewardPopulations]

RewardInit ==
    \E a \in RewardArgs : rewardCall = [args |-> a, returned |-> FALSE, ret |-> 0]

RewardIdle ==
    rewardCall = [args |-> [water |-> 0, food |-> 0, energy |-> 0,
                            stability |-> 0, population |-> 0],
                  returned |-> FALSE, ret |-> 0]

CalculateReward ==
    /\ ~rewardCall.returned
    /\ rewardCall' = [rewardCall EXCEPT
           !.returned = TRUE,
           !.ret = calculate_reward(
                       [water |-> rewardCall.args.water, food |-> rewardCall.args.food,
                        energy |-> rewardCall.args.energy],
                       rewardCall.args.stability, rewardCall.args.population)]
    /\ UNCHANGED <<poolVars, dqnVars, worldVars, twin, call, loop>>

\* The caller passes the next arguments.
NextRewardArgs ==
    /\ rewardCall.returned
    /\ \E a \in RewardArgs : rewardCall' = [args |-> a, returned |-> FALSE, ret |-> 0]
    /\ UNCHANGED <<poolVars, dqnVars, worldVars, twin, call, loop>>

---------------------------------------------------------------------------
(* DQNAgent, rl_agent.py *)

action_size == 9
memory_maxlen == 2000
replay_batch_size == 32

Actions == 0 .. (action_size - 1)

\* 1.0 of epsilon and of the uniform draws, in 1/10^9.
EpsilonOne == 1000000000

\* epsilon_min = 0.01
epsilon_min == 10000000

\* np.random.random() yields a float in [0, 1): values tried.
UniformDraws == {0, 500000000, 999999999}

\* q_values = np.random.randn(action_size) * 0.01: small noise, values tried
\* (1/20000 units).
InitialQValues ==
    { [a \in Actions |-> 0], [a \in Actions |-> (a - 4) * 50] }

\* DQNAgent.__init__
NewDQN(q) ==
    [epsilon |-> EpsilonOne, q_values |-> q, memory |-> << >>, loss_history |-> << >>]

\* RegionalAgent.__init__
NewAgent(q) == [dqn |-> NewDQN(q), action_history |-> << >>, reward_history |-> << >>]

\* A plausible slip: an unbounded list instead of deque(maxlen=2000).
RememberKeepsAll(d, t) == [d EXCEPT !.memory = Append(@, t)]

\* DQNAgent.remember: append to deque(maxlen=2000), dropping the oldest when full.
remember(d, t) ==
    [d EXCEPT !.memory = IF Len(@) >= memory_maxlen
                          THEN Append(Tail(@), t)
                          ELSE Append(@, t)]

\* np.argmax(q + c): the first index holding the maximum (the added constant
\* np.sum(state) * 0.1 shifts every entry alike).
ArgMax(q) ==
    CHOOSE a \in Actions :
        /\ \A b \in Actions : q[b] <= q[a]
        /\ \A b \in Actions : b < a => q[b] < q[a]

\* DQNAgent.act(state, training) for the draws u = np.random.random() and
\* r = random.randint(0, action_size - 1).
act(d, state, training, u, r) ==
    IF training /\ u < d.epsilon THEN r ELSE ArgMax(d.q_values)

\* np.max(q_values + np.sum(next_state) * 0.1); a state is carried as the sum
\* of its components in thousandths, so sum * 0.1 is 2 * sum in 1/20000.
MaxQ(q, stateSum) ==
    LET best == ArgMax(q) IN q[best] + 2 * stateSum

\* The TD target of one transition: gamma = 0.95.
Target(q, t) ==
    IF t.done THEN t.reward
    ELSE t.reward + TruncDiv(95 * MaxQ(q, t.next_state), 100)

\* The loop over the batch: learning_rate = 0.01.
RECURSIVE ReplayBatch(_, _, _)
ReplayBatch(q, batch, total_loss) ==
    IF batch = << >> THEN [q_values |-> q, total_loss |-> total_loss]
    ELSE LET t == Head(batch)
             target == Target(q, t)
             old_q == q[t.action]
             q2 == [q EXCEPT ![t.action] = old_q + TruncDiv(target - old_q, 100)]
         IN  ReplayBatch(q2, Tail(batch), total_loss + Abs(target - old_q))

\* epsilon *= epsilon_decay, 0.995 = 1 - 1/200.
DecayEpsilon(e) == e - (e \div 200)

\* random.sample(memory, batch_size): batch_size distinct positions, in any order.
Samples(memory, batch_size) ==
    { s \in [1 .. batch_size -> 1 .. Len(memory)] :
          \A i, j \in 1 .. batch_size : i # j => s[i] # s[j] }

\* A plausible slip: the decay done before the buffer-size check.
ReplayDecaysFirst(d, batch_size, sample) ==
    LET e == IF d.epsilon > epsilon_min THEN DecayEpsilon(d.epsilon) ELSE d.epsilon
    IN  IF Len(d.memory) < batch_size
        THEN [dqn |-> [d EXCEPT !.epsilon = e], ret |-> 0]
        ELSE LET batch == [i \in 1 .. batch_size |-> d.memory[sample[i]]]
                 r == ReplayBatch(d.q_values, batch, 0)
                 avg_loss == TruncDiv(r.total_loss, batch_size)
             IN  [dqn |-> [d EXCEPT !.q_values = r.q_values,
                                    !.loss_history = Append(@, avg_loss),
                                    !.epsilon = e],
                  ret |-> avg_loss]

\* A plausible slip: epsilon divided by the decay factor instead of multiplied.
ReplayGrowsEpsilon(d, batch_size, sample) ==
    IF Len(d.memory) < batch_size THEN [dqn |-> d, ret |-> 0]
    ELSE LET batch == [i \in 1 .. batch_size |-> d.memory[sample[i]]]
             r == ReplayBatch(d.q_values, batch, 0)
             avg_loss == TruncDiv(r.total_loss, batch_size)
         IN  [dqn |-> [d EXCEPT !.q_values = r.q_values,
                                !.loss_history = Append(@, avg_loss),
                                !.epsilon = IF @ > epsilon_min
                                            THEN @ + (@ \div 199) ELSE @],
              ret |-> avg_loss]

\* DQNAgent.replay(batch_size) for the sample drawn: the agent after the call
\* and the loss returned.
replay(d, batch_size, sample) ==
    IF Len(d.memory) < batch_size THEN [dqn |-> d, ret |-> 0]
    ELSE LET batch == [i \in 1 .. batch_size |-> d.memory[sample[i]]]
             r == ReplayBatch(d.q_values, batch, 0)
             avg_loss == TruncDiv(r.total_loss, batch_size)
         IN  [dqn |-> [d EXCEPT !.q_values = r.q_values,
                                !.loss_history = Append(@, avg_loss),
                                !.epsilon = IF @ > epsilon_min
                                            THEN DecayEpsilon(@) ELSE @],
              ret |-> avg_loss]

\* The samples replay can draw; when the buffer is too small none is drawn.
ReplaySamples(d, batch_size) ==
    IF Len(d.memory) < batch_size THEN { << >> } ELSE Samples(d.memory, batch_size)

(* The learner driven directly *)

\* Bounds of the learner runs.
MaxMemory == 2
MaxReplays == 3

\* Transitions stored (state and next_state as component sums in thousandths,
\* reward in 1/20000).
LearnerTransitions ==
    { [state |-> 6000, action |-> 0, reward |-> -160000, next_state |-> 6000, done |-> TRUE],
      [state |-> 6000, action |-> 8, reward |-> 60000, next_state |-> 6000, done |-> FALSE] }

BatchSizes == {1, 2, replay_batch_size}

NoDqnCall == [op |-> "new", batch_size |-> 0, ret |-> 0]

DqnInit ==
    /\ \E q \in InitialQValues : dqn = NewDQN(q)
    /\ dqnCall = NoDqnCall
    /\ regionalAgent = NewAgent([a \in Actions |-> 0])

DqnIdle ==
    /\ dqn = NewDQN([a \in Actions |-> 0])
    /\ dqnCall = NoDqnCall
    /\ regionalAgent = NewAgent([a \in Actions |-> 0])

DqnRemember ==
    /\ Len(dqn.memory) < MaxMemory
    /\ \E t \in LearnerTransitions :
           /\ dqn' = remember(dqn, t)
           /\ dqnCall' = [op |-> "remember", batch_size |-> 0, ret |-> 0]
    /\ UNCHANGED <<regionalAgent, poolVars, rewardVars, worldVars, twin, call, loop>>

DqnAct ==
    \E state \in {0, 6000}, training \in BOOLEAN, u \in UniformDraws, r \in Actions :
        /\ dqn' = dqn
        /\ dqnCall' = [op |-> "act", batch_size |-> 0,
                       ret |-> act(dqn, state, training, u, r)]
        /\ UNCHANGED <<regionalAgent, poolVars, rewardVars, worldVars, twin, call, loop>>

DqnReplay ==
    /\ Len(dqn.loss_history) < MaxReplays
    /\ \E b \in BatchSizes : \E s \in ReplaySamples(dqn, b) :
           LET r == replay(dqn, b, s)
           IN  /\ dqn' = r.dqn
               /\ dqnCall' = [op |-> "replay", batch_size |-> b, ret |-> r.ret]
    /\ UNCHANGED <<regionalAgent, poolVars, rewardVars, worldVars, twin, call, loop>>

(* The decay of epsilon followed to its floor: one stored transition and
   replay(1) over and over. *)

MaxDecayReplays == 925

DecayRemember ==
    /\ Len(dqn.memory) < 1
    /\ dqn' = remember(dqn, [state |-> 6000, action |-> 0, reward |-> 0,
                             next_state |-> 6000, done |-> TRUE])
    /\ dqnCall' = [op |-> "remember", batch_size |-> 0, ret |-> 0]
    /\ UNCHANGED <<regionalAgent, poolVars, rewardVars, worldVars, twin, call, loop>>

DecayReplay ==
    /\ Len(dqn.loss_history) < MaxDecayReplays
    /\ \E s \in ReplaySamples(dqn, 1) :
           LET r == replay(dqn, 1, s)
           IN  /\ dqn' = r.dqn
               /\ dqnCall' = [op |-> "replay", batch_size |-> 1, ret |-> r.ret]
    /\ UNCHANGED <<regionalAgent, poolVars, rewardVars, worldVars, twin, call, loop>>

(* The replay buffer filled past its capacity: remember called over and over,
   the k-th call storing a transition whose reward is k/20000. *)

\* Bound on the remember calls of a run.
MaxBufferRemembers == 2003

\* The number of remember calls made so far.
RememberCalls == IF dqnCall.op = "new" THEN 0 ELSE dqnCall.n

BufferRemember ==
    /\ RememberCalls < MaxBufferRemembers
    /\ dqn' = remember(dqn, [state |-> 6000, action |-> RememberCalls % action_size,
                             reward |-> RememberCalls + 1, next_state |-> 6000,
                             done |-> FALSE])
    /\ dqnCall' = [op |-> "remember", batch_size |-> 0, ret |-> 0,
                   n |-> RememberCalls + 1]
    /\ UNCHANGED <<regionalAgent, poolVars, rewardVars, worldVars, twin, call, loop>>

---------------------------------------------------------------------------
(* RegionState, resources.py; RegionalAgent, rl_agent.py *)

\* What a RegionState offers besides its fields: get_state_dict and nothing
\* else. is_critical is a method of ResourcePool (region.resources), not of
\* RegionState.
RegionStateMethods == {"get_state_dict"}

\* RegionState(...) as _initialize_world builds it: land 1000 and the
\* dataclass defaults growth_rate 0.02, stability 0.8, disaster_risk 0.05 and
\* an empty trade_partners dict. region_id is the key under which the region
\* is held; the display name is left out.
NewRegion(d) ==
    [resources |-> NewPool(d.water, d.food, d.energy, 10000),
     population |-> d.population,
     development_level |-> d.development_level,
     growth_rate |-> 2,
     stability |-> 80,
     trade_partners |-> << >>,
     temperature |-> d.temperature,
     rainfall |-> d.rainfall,
     disaster_risk |-> 5]

\* RegionState.get_state_dict: a fresh dict of the fields, resources copied by
\* get_as_dict. The model's region record is that snapshot.
get_state_dict(region) == region

\* Clamp one state-vector component, given in thousandths, to [0, 1].
Clip01(x) == Clip(x, 0, 1000)

\* RegionalAgent.get_state_vector, carried as the sum of its twelve clipped
\* components in thousandths (act and replay read a state only through np.sum).
get_state_vector(region) ==
    LET res == region.resources
    IN  Clip01(res.water \div 20) + Clip01(res.food \div 20)
        + Clip01(res.energy \div 20) + Clip01(res.land \div 10)
        + Clip01(region.population) + Clip01(region.development_level * 50)
        + Clip01(region.stability * 10) + Clip01(region.temperature * 20)
        + Clip01(region.rainfall * 5) + Clip01(region.disaster_risk * 10)
        + Clip01(Cardinality(DOMAIN region.trade_partners) * 100)
        + Clip01(region.growth_rate * 1000)

\* RegionalAgent.ACTIONS: the keys each entry holds besides its name. Resource
\* deltas in whole units, growth and pop_growth in hundredths, dev_increase in
\* twentieths, trade_intensity and conservation in tenths.
RegionalAgent_ACTIONS ==
    [a \in Actions |->
        CASE a = 0 -> [water |-> -50, food |-> 100, energy |-> -20]
          [] a = 1 -> [water |-> -30, food |-> -20, energy |-> 150]
          [] a = 2 -> [water |-> 200, food |-> -50, energy |-> -50]
          [] a = 3 -> [pop_growth |-> 5, energy |-> -100]
          [] a = 4 -> [trade_intensity |-> 8, energy |-> -30]
          [] a = 5 -> [trade_intensity |-> 5, energy |-> -15]
          [] a = 6 -> [conservation |-> 3, growth |-> -2]
          [] a = 7 -> [dev_increase |-> 1, energy |-> -80]
          [] a = 8 -> [passive |-> TRUE]]

ActionName(a) ==
    CASE a = 0 -> "Invest in Food"
      [] a = 1 -> "Invest in Energy"
      [] a = 2 -> "Invest in Water"
      [] a = 3 -> "Increase Production"
      [] a = 4 -> "Trade (Aggressive)"
      [] a = 5 -> "Trade (Moderate)"
      [] a = 6 -> "Conserve Resources"
      [] a = 7 -> "Invest in Development"
      [] a = 8 -> "Do Nothing"

\* A plausible slip: learn running replay(32) a second time on the result of
\* the first.
LearnReplaysTwice(agent, state, action, reward, next_state, done, sample) ==
    LET d1 == remember(agent.dqn, [state |-> state, action |-> action, reward |-> reward,
                                   next_state |-> next_state, done |-> done])
        d2 == replay(d1, replay_batch_size, sample).dqn
    IN  [dqn |-> replay(d2, replay_batch_size, sample).dqn,
         action_history |-> Append(agent.action_history, action),
         reward_history |-> Append(agent.reward_history, reward)]

\* RegionalAgent.learn for the replay sample drawn: remember, append to both
\* histories, one replay(32).
learn(agent, state, action, reward, next_state, done, sample) ==
    LET d1 == remember(agent.dqn, [state |-> state, action |-> action, reward |-> reward,
                                   next_state |-> next_state, done |-> done])
    IN  [dqn |-> replay(d1, replay_batch_size, sample).dqn,
         action_history |-> Append(agent.action_history, action),
         reward_history |-> Append(agent.reward_history, reward)]

---------------------------------------------------------------------------
(* ClimaticEvent, engine.py *)

EventTypes == {"drought", "flood", "heatwave", "coldsnap", "harvest", "plague"}

\* ClimaticEvent.EVENT_TYPES without the description strings (apply skips
\* them: a ResourcePool has no attribute 'description'). Resource deltas in
\* whole units, population_loss in tenths.
EVENT_TYPES ==
    [t \in EventTypes |->
        CASE t = "drought" -> [water |-> -500, food |-> -300]
          [] t = "flood" -> [water |-> 200, food |-> -200, land |-> -100]
          [] t = "heatwave" -> [energy |-> -200, food |-> -150]
          [] t = "coldsnap" -> [energy |-> -400, food |-> -100]
          [] t = "harvest" -> [food |-> 300]
          [] t = "plague" -> [population_loss |-> 1]]

ResourceNames == {"water", "food", "energy", "land"}

Range(seq) == { seq[i] : i \in DOMAIN seq }

\* A plausible slip: apply without the affected_regions test.
ApplyToAnyRegion(event, region_id, region) ==
    LET data == EVENT_TYPES[event.event_type]
        res == [k \in ResourceNames |->
                   IF k \in DOMAIN data
                   THEN Max(0, region.resources[k] + data[k] * event.severity)
                   ELSE region.resources[k]]
        pop == IF "population_loss" \in DOMAIN data
               THEN TruncDiv(region.population
                             * (100 - data["population_loss"] * event.severity), 100)
               ELSE region.population
    IN  [region EXCEPT !.resources = res, !.population = pop]

\* ClimaticEvent.apply to the region held under region_id. A resource key sets
\* the stock to max(0, current + change * severity); population_loss sets the
\* population to int(population * (1 - change * severity)).
apply(event, region_id, region) ==
    IF region_id \notin Range(event.affected_regions) THEN region
    ELSE LET data == EVENT_TYPES[event.event_type]
             res == [k \in ResourceNames |->
                        IF k \in DOMAIN data
                        THEN Max(0, region.resources[k] + data[k] * event.severity)
                        ELSE region.resources[k]]
             pop == IF "population_loss" \in DOMAIN data
                    THEN TruncDiv(region.population
                                  * (100 - data["population_loss"] * event.severity), 100)
                    ELSE region.population
         IN  [region EXCEPT !.resources = res, !.population = pop]

---------------------------------------------------------------------------
(* TradeNetwork, engine.py *)

\* TradeNetwork.__init__: an empty DiGraph (nodes; edges as a map from
\* (source, target) to weight) and an empty trade log.
NewTradeNetwork == [nodes |-> {}, edges |-> << >>, trade_history |-> << >>]

\* TradeNetwork.add_region
add_region(net, region_id) == [net EXCEPT !.nodes = @ \cup {region_id}]

\* A plausible slip: establish_trade adding only the edge a -> b.
EstablishTradeOneWay(net, a, b, strength) ==
    [net EXCEPT !.nodes = @ \cup {a, b},
                !.edges = (<<a, b>> :> strength) @@ @]

\* TradeNetwork.establish_trade: both directed edges, the same weight; an edge
\* already present has its weight overwritten.
establish_trade(net, a, b, strength) ==
    [net EXCEPT !.nodes = @ \cup {a, b},
                !.edges = (<<a, b>> :> strength) @@ (<<b, a>> :> strength) @@ @]

\* TradeNetwork.get_trading_partners
get_trading_partners(net, region_id) ==
    [b \in { c \in net.nodes : <<region_id, c>> \in DOMAIN net.edges } |->
        net.edges[<<region_id, b>>]]

\* A plausible slip: execute_trade taking the food through the ledger's clamp
\* at 0.
ExecuteTradeClamped(net, regs, a, b, strength) ==
    LET trade_amount == 50 * strength
        food1 == Max(0, regs[a].resources.food - trade_amount)
        energy1 == regs[b].resources.energy - (trade_amount * 8) \div 10
        energy2 == energy1 + (trade_amount * 9) \div 10
        food2 == food1 + (trade_amount * 8) \div 10
        regs1 == [regs EXCEPT ![a].resources.food = food2]
        regs2 == [regs1 EXCEPT ![b].resources.energy = energy2]
    IN  [regions |-> regs2,
         net |-> [net EXCEPT !.trade_history =
                     Append(@, [region_a |-> a, region_b |-> b, strength |-> strength])]]

\* A plausible slip: execute_trade keeping only the latest trade in its log.
ExecuteTradeKeepsLast(net, regs, a, b, strength) ==
    LET trade_amount == 50 * strength
        food1 == regs[a].resources.food - trade_amount
        energy1 == regs[b].resources.energy - (trade_amount * 8) \div 10
        energy2 == energy1 + (trade_amount * 9) \div 10
        food2 == food1 + (trade_amount * 8) \div 10
        regs1 == [regs EXCEPT ![a].resources.food = food2]
        regs2 == [regs1 EXCEPT ![b].resources.energy = energy2]
    IN  [regions |-> regs2,
         net |-> [net EXCEPT !.trade_history =
                     <<[region_a |-> a, region_b |-> b, strength |-> strength]>>]]

\* TradeNetwork.execute_trade on the regions held under ids a and b:
\* trade_amount = strength * 50, i.e. 50 * strength tenths for a strength in
\* tenths; the four assignments are plain arithmetic, no clamp.
execute_trade(net, regs, a, b, strength) ==
    LET trade_amount == 50 * strength
        food1 == regs[a].resources.food - trade_amount
        energy1 == regs[b].resources.energy - (trade_amount * 8) \div 10
        energy2 == energy1 + (trade_amount * 9) \div 10
        food2 == food1 + (trade_amount * 8) \div 10
        regs1 == [regs EXCEPT ![a].resources.food = food2]
        regs2 == [regs1 EXCEPT ![b].resources.energy = energy2]
    IN  [regions |-> regs2,
         net |-> [net EXCEPT !.trade_history =
                     Append(@, [region_a |-> a, region_b |-> b, strength |-> strength])]]

---------------------------------------------------------------------------
(* WorldSimulation, engine.py *)

\* Region ids "region_0", "region_1", ... are carried as 0, 1, ...; the dicts
\* regions and agents iterate in that order.
RegionIds(n) == 0 .. (n - 1)

\* Injective sequences of length k over S: np.random.choice(S, size=k,
\* replace=False).
InjectiveSeqs(S, k) ==
    { q \in [1 .. k -> S] : \A i, j \in 1 .. k : i # j => q[i] # q[j] }

\* The pairs _establish_initial_trades rolls for: i < j < min(i + 3, n).
InitialTradePairs(n) ==
    { p \in RegionIds(n) \X RegionIds(n) : p[1] < p[2] /\ p[2] < Min(p[1] + 3, n) }

\* _establish_initial_trades for the rolls drawn: choice[p] = 0 when the 70%
\* roll fails for pair p, else the strength drawn for it.
RECURSIVE establish_initial_trades(_, _, _)
establish_initial_trades(net, pairs, choice) ==
    IF pairs = {} THEN net
    ELSE LET p == CHOOSE x \in pairs :
                      \A y \in pairs : x[1] < y[1] \/ (x[1] = y[1] /\ x[2] <= y[2])
             net1 == IF choice[p] = 0 THEN net
                     ELSE establish_trade(net, p[1], p[2], choice[p])
         IN  establish_initial_trades(net1, pairs \ {p}, choice)

\* add_region for every region, in order.
RECURSIVE AddRegions(_, _)
AddRegions(net, ids) ==
    IF ids = {} THEN net
    ELSE LET i == CHOOSE x \in ids : \A y \in ids : x <= y
         IN  AddRegions(add_region(net, i), ids \ {i})

\* Draws of _initialize_world for one region (np.random.uniform(800, 1200)
\* for the stocks, randint(80, 120), uniform(0.3, 0.7), uniform(15, 25),
\* uniform(80, 150)): values tried.
RegionDraws ==
    { [water |-> 8000, food |-> 8000, energy |-> 8000, population |-> 80,
       development_level |-> 6, temperature |-> 15, rainfall |-> 80],
      [water |-> 12000, food |-> 12000, energy |-> 12000, population |-> 119,
       development_level |-> 14, temperature |-> 25, rainfall |-> 150] }

\* np.random.uniform(0.3, 0.8) for a trade strength: value tried (tenths).
TradeStrengthDraws == {5}

\* np.random.uniform(0.5, 1.5) for a severity: values tried (tenths).
SeverityDraws == {5, 15}

\* WorldSimulation.__init__ with _initialize_world, for the draws given.
NewWorld(n, draws, q, tradeChoice) ==
    [num_regions |-> n,
     current_cycle |-> 0,
     regions |-> [i \in RegionIds(n) |-> NewRegion(draws[i])],
     agents |-> [i \in RegionIds(n) |-> NewAgent(q)],
     trade_network |-> establish_initial_trades(
                           AddRegions(NewTradeNetwork, RegionIds(n)),
                           InitialTradePairs(n), tradeChoice),
     event_history |-> << >>,
     cycle_history |-> << >>]

\* The worlds WorldSimulation(num_regions=n) can build.
NewWorlds(n) ==
    { NewWorld(n, draws, [a \in Actions |-> (a - 4) * 50], tradeChoice) :
        draws \in [RegionIds(n) -> RegionDraws],
        tradeChoice \in [InitialTradePairs(n) -> {0} \cup TradeStrengthDraws] }

\* _update_basic_resources
update_basic_resources(region) ==
    LET water_generation == region.rainfall * 50
        res1 == replenish(region.resources, water_generation, 0, 0, 0)
        food_production == region.development_level * region.population
        res2 == replenish(res1, 0, food_production, 0, 0)
        energy_consumption == region.population * 50
        res3 == deplete(res2, 0, 0, energy_consumption, 0)
        pop == IF res3.food > region.population * 80
               THEN TruncDiv(region.population * (100 + region.growth_rate), 100)
               ELSE IF res3.food < region.population * 30
                    THEN TruncDiv(region.population * 98, 100)
                    ELSE region.population
    IN  [region EXCEPT !.resources = res3, !.population = pop]

\* _generate_climatic_event: None (the empty sequence) when the 15% roll
\* fails, else one event. np.random.randint(1, high) draws below high.
generate_climatic_event(w, types, severities) ==
    { << >> } \cup
    { <<[event_type |-> t, affected_regions |-> affected, severity |-> sev]>> :
        t \in types,
        affected \in UNION { InjectiveSeqs(RegionIds(w.num_regions), k) :
                               k \in 1 .. (Max(2, w.num_regions \div 2) - 1) },
        sev \in severities }

\* step, "Apply climatic events": the event is logged and applied to every
\* region.
ApplyClimaticEvent(w, ev) ==
    IF ev = << >> THEN w
    ELSE [w EXCEPT !.event_history = Append(@, ev[1]),
                   !.regions = [i \in DOMAIN @ |-> apply(ev[1], i, @[i])]]

\* step, "Apply action effects": deplete by the negated delta for water,
\* food and energy, then growth, pop_growth and dev_increase.
ApplyActionEffects(region, effects) ==
    LET keys == DOMAIN effects
        res1 == IF "water" \in keys
                THEN deplete(region.resources, -(10 * effects["water"]), 0, 0, 0)
                ELSE region.resources
        res2 == IF "food" \in keys
                THEN deplete(res1, 0, -(10 * effects["food"]), 0, 0) ELSE res1
        res3 == IF "energy" \in keys
                THEN deplete(res2, 0, 0, -(10 * effects["energy"]), 0) ELSE res2
        growth == IF "growth" \in keys
                  THEN region.growth_rate + effects["growth"] ELSE region.growth_rate
        pop == IF "pop_growth" \in keys
               THEN TruncDiv(region.population * (100 + effects["pop_growth"]), 100)
               ELSE region.population
        dev == IF "dev_increase" \in keys
               THEN Min(20, region.development_level + effects["dev_increase"])
               ELSE region.development_level
    IN  [region EXCEPT !.resources = res3, !.growth_rate = growth,
                       !.population = pop, !.development_level = dev]

\* A plausible slip: a region found critical after its action has its agent
\* retired from the agents map.
AgentTurnRetiresCritical(w, i, u, r) ==
    LET region == w.regions[i]
        agent == w.agents[i]
        action_idx == act(agent.dqn, get_state_vector(get_state_dict(region)), TRUE, u, r)
        region1 == ApplyActionEffects(region, RegionalAgent_ACTIONS[action_idx])
        w1 == [w EXCEPT !.regions[i] = region1]
        w2 == IF is_critical(region1.resources)
              THEN [w1 EXCEPT !.agents = [j \in DOMAIN @ \ {i} |-> @[j]]]
              ELSE w1
    IN  { [w |-> w2, raised |-> "AttributeError", snapshot |-> << >>,
           entry |-> << >>, np |-> <<u>>] }

\* step, the body of the agent loop for region i, for the draws u
\* (np.random.random() in act), r (random.randint in act) and the replay
\* sample. region.is_critical() is looked up on the RegionState: when
\* RegionState has no such method the call raises AttributeError, after the
\* action has been applied and before learn and the report entries.
AgentTurn(w, i, u, r) ==
    LET region == w.regions[i]
        agent == w.agents[i]
        action_idx == act(agent.dqn, get_state_vector(get_state_dict(region)), TRUE, u, r)
        region1 == ApplyActionEffects(region, RegionalAgent_ACTIONS[action_idx])
        reward == calculate_reward(region1.resources, region1.stability,
                                   region1.population)
        state_vec == get_state_vector(get_state_dict(region1))
        w1 == [w EXCEPT !.regions[i] = region1]
    IN  IF "is_critical" \notin RegionStateMethods
        THEN { [w |-> w1, raised |-> "AttributeError", snapshot |-> << >>,
                entry |-> << >>, np |-> <<u>>] }
        ELSE LET done == is_critical(region1.resources)
                 d1 == remember(agent.dqn, [state |-> state_vec, action |-> action_idx,
                                            reward |-> reward, next_state |-> state_vec,
                                            done |-> done])
             IN  { [w |-> [w1 EXCEPT !.agents[i] =
                              learn(agent, state_vec, action_idx, reward, state_vec,
                                    done, sample)],
                    raised |-> "none",
                    snapshot |-> <<get_state_dict(region1)>>,
                    entry |-> <<[region_id |-> i, action |-> ActionName(action_idx),
                                 reward |-> reward]>>,
                    np |-> <<u>>] :
                   sample \in ReplaySamples(d1, replay_batch_size) }

\* step, "Agent decision making and resource allocation": the loop over the
\* regions from region i on. Yields every way the loop can end: the world,
\* what was raised, the report's regions (region i's snapshot at position
\* i + 1) and actions so far, and the np.random draws consumed.
RECURSIVE AgentLoop(_, _, _, _, _, _)
AgentLoop(w, i, snapshots, entries, np, actionDraws) ==
    IF i = w.num_regions
    THEN { [w |-> w, raised |-> "none", snapshots |-> snapshots,
            entries |-> entries, np |-> np] }
    ELSE UNION {
           UNION {
               IF o.raised # "none"
               THEN { [w |-> o.w, raised |-> o.raised, snapshots |-> snapshots,
                       entries |-> entries, np |-> np \o o.np] }
               ELSE AgentLoop(o.w, i + 1, snapshots \o o.snapshot,
                              entries \o o.entry, np \o o.np, actionDraws) :
               o \in AgentTurn(w, i, u, r) } :
             u \in UniformDraws, r \in actionDraws }

\* The (a, b) pairs the trade loop visits, in its order: a over the regions,
\* b over a's partners, kept when a < b.
RECURSIVE TradeVisits(_, _)
TradeVisits(w, pairs) ==
    IF pairs = {} THEN << >>
    ELSE LET p == CHOOSE x \in pairs :
                      \A y \in pairs : x[1] < y[1] \/ (x[1] = y[1] /\ x[2] <= y[2])
         IN  <<p>> \o TradeVisits(w, pairs \ {p})

TradePairs(w) ==
    { p \in RegionIds(w.num_regions) \X RegionIds(w.num_regions) :
        /\ p[2] \in DOMAIN get_trading_partners(w.trade_network, p[1])
        /\ p[1] < p[2] }

\* step, "Execute trades": each visited pair trades when its 50% roll
\* succeeds.
RECURSIVE TradeLoop(_, _, _)
TradeLoop(w, visits, np) ==
    IF visits = << >> THEN { [w |-> w, np |-> np] }
    ELSE LET a == Head(visits)[1]
             b == Head(visits)[2]
             strength == get_trading_partners(w.trade_network, a)[b]
             t == execute_trade(w.trade_network, w.regions, a, b, strength)
             traded == [w EXCEPT !.regions = t.regions, !.trade_network = t.net]
         IN  TradeLoop(w, Tail(visits), Append(np, FALSE))
             \cup TradeLoop(traded, Tail(visits), Append(np, TRUE))

\* WorldSimulation.step from world w: every way the call can end. Each
\* outcome holds the world it leaves, what it raised ("none" when it
\* returned), the cycle report returned (as a sequence of at most one) and
\* the np.random draws it consumed.
StepOutcomes(w, types, severities, actionDraws) ==
    LET w1 == [w EXCEPT !.regions = [i \in DOMAIN @ |-> update_basic_resources(@[i])]]
    IN  UNION {
          LET w2 == ApplyClimaticEvent(w1, ev)
              events == IF ev = << >> THEN << >>
                        ELSE <<[type |-> ev[1].event_type,
                                affected_regions |-> ev[1].affected_regions,
                                severity |-> ev[1].severity]>>
          IN  UNION {
                IF l.raised # "none"
                THEN { [w |-> l.w, raised |-> l.raised, ret |-> << >>,
                        np |-> <<ev>> \o l.np] }
                ELSE { LET cycle_data == [cycle |-> w.current_cycle,
                                          regions |-> l.snapshots,
                                          events |-> events,
                                          actions |-> l.entries]
                       IN  [w |-> [t.w EXCEPT !.cycle_history = Append(@, cycle_data),
                                              !.current_cycle = @ + 1],
                            raised |-> "none",
                            ret |-> <<cycle_data>>,
                            np |-> <<ev>> \o t.np] :
                       t \in TradeLoop(l.w, TradeVisits(l.w, TradePairs(l.w)), l.np) } :
                l \in AgentLoop(w2, 0, << >>, << >>, << >>, actionDraws) } :
          ev \in generate_climatic_event(w1, types, severities) }

(* The simulation driven by step() *)

\* Bound on the step() calls of a run.
MaxSteps == 1

\* num_regions values tried.
RegionCounts == {1, 2}

\* The simulation object as one record.
World ==
    [num_regions |-> num_regions, current_cycle |-> current_cycle, regions |-> regions,
     agents |-> agents, trade_network |-> trade_network,
     event_history |-> event_history, cycle_history |-> cycle_history]

IsWorld(w) ==
    /\ num_regions = w.num_regions
    /\ current_cycle = w.current_cycle
    /\ regions = w.regions
    /\ agents = w.agents
    /\ trade_network = w.trade_network
    /\ event_history = w.event_history
    /\ cycle_history = w.cycle_history

BecomesWorld(w) ==
    /\ num_regions' = w.num_regions
    /\ current_cycle' = w.current_cycle
    /\ regions' = w.regions
    /\ agents' = w.agents
    /\ trade_network' = w.trade_network
    /\ event_history' = w.event_history
    /\ cycle_history' = w.cycle_history

NoStepResult == [raised |-> "none", ret |-> << >>]

WorldInit ==
    /\ \E n \in RegionCounts : \E w \in NewWorlds(n) : IsWorld(w)
    /\ stepResult = NoStepResult
    /\ stepCalls = 0

WorldIdle ==
    /\ IsWorld(NewWorld(1, [i \in RegionIds(1) |->
                               [water |-> 8000, food |-> 8000, energy |-> 8000,
                                population |-> 80, development_level |-> 6,
                                temperature |-> 15, rainfall |-> 80]],
                        [a \in Actions |-> 0], << >>))
    /\ stepResult = NoStepResult
    /\ stepCalls = 0

NoTwin == << >>

\* No direct call made yet, no request in the event loop.
NoCall == [op |-> "none", n |-> 0]
NoLoop ==
    [pending |-> {}, running |-> << >>, arrived |-> 0, served |-> << >>,
     between |-> << >>]

ApiIdle ==
    /\ call = NoCall
    /\ loop = NoLoop

\* One step() call.
Step ==
    /\ stepCalls < MaxSteps
    /\ \E o \in StepOutcomes(World, EventTypes, SeverityDraws, Actions) :
           /\ BecomesWorld(o.w)
           /\ stepResult' = [raised |-> o.raised, ret |-> o.ret]
    /\ stepCalls' = stepCalls + 1
    /\ UNCHANGED <<poolVars, rewardVars, dqnVars, twin, call, loop>>

(* A long run of one region. The agent's random draws are Increase
   Production, and also Conserve Resources once the population is so large
   that food at its cap no longer exceeds population * 8; the only event drawn
   is a plague of severity 1.5. *)

\* Bounds of the long run: the step() calls made, the population and the
\* fall of growth_rate (hundredths) up to which step() is called, and the
\* events drawn.
MaxRunSteps == 80
MaxRunPopulation == 300
MaxRunGrowthDrop == 106
MaxRunEvents == 1

RunInit ==
    /\ \E w \in NewWorlds(1) : IsWorld(w)
    /\ stepResult = NoStepResult
    /\ stepCalls = 0

\* The actions random.randint yields in the long run.
RunActionDraws ==
    {3} \cup (IF \A i \in DOMAIN regions : regions[i].population * 80 > max_food
             THEN {6} ELSE {})

RunStep ==
    /\ stepCalls < MaxRunSteps
    /\ \A i \in DOMAIN regions :
           /\ regions[i].population <= MaxRunPopulation
           /\ regions[i].growth_rate >= -MaxRunGrowthDrop
    /\ \E o \in StepOutcomes(World,
                            IF Len(event_history) < MaxRunEvents THEN {"plague"} ELSE {},
                            {15}, RunActionDraws) :
           /\ BecomesWorld(o.w)
           /\ stepResult' = [raised |-> o.raised, ret |-> o.ret]
    /\ stepCalls' = stepCalls + 1
    /\ UNCHANGED <<poolVars, rewardVars, dqnVars, twin, call, loop>>

(* Two simulations built with the same seed and region count, each in its
   own process, stepped side by side. np.random.seed(seed) fixes the np.random
   stream, so both constructions and every np.random draw of the k-th step()
   agree; random.randint in act and random.sample in replay come from
   Python's random module, which nothing seeds, and are drawn separately. *)

MaxTwinSteps == 1

TwinInit ==
    /\ \E w \in NewWorlds(1) : IsWorld(w) /\ twin = [w |-> w, stepResult |-> NoStepResult]
    /\ stepResult = NoStepResult
    /\ stepCalls = 0

\* One step() call on each of the two simulations.
TwinStep ==
    /\ stepCalls < MaxTwinSteps
    /\ \E o1 \in StepOutcomes(World, EventTypes, SeverityDraws, Actions) :
       \E o2 \in StepOutcomes(twin.w, EventTypes, SeverityDraws, Actions) :
           /\ o1.np = o2.np
           /\ BecomesWorld(o1.w)
           /\ stepResult' = [raised |-> o1.raised, ret |-> o1.ret]
           /\ twin' = [w |-> o2.w, stepResult |-> [raised |-> o2.raised, ret |-> o2.ret]]
    /\ stepCalls' = stepCalls + 1
    /\ UNCHANGED <<poolVars, rewardVars, dqnVars, call, loop>>

(* ClimaticEvent.apply and TradeNetwork.execute_trade called directly on the
   regions of a two-region world. *)

\* Bound on the direct calls of a run.
MaxDirectCalls == 3

\* The affected_regions lists tried, and the trade strengths passed (tenths).
AffectedDraws == { <<0>>, <<0, 1>> }
DirectStrengths == {5, 8}

DirectInit ==
    /\ \E w \in NewWorlds(2) : IsWorld(w)
    /\ stepResult = NoStepResult
    /\ stepCalls = 0
    /\ ApiIdle

\* ClimaticEvent(event_type, affected_regions, severity).apply(regions[i])
ApplyEvent ==
    /\ call.n < MaxDirectCalls
    /\ \E t \in EventTypes, affected \in AffectedDraws, sev \in SeverityDraws,
          i \in DOMAIN regions :
           LET event == [event_type |-> t, affected_regions |-> affected, severity |-> sev]
           IN  /\ regions' = [regions EXCEPT ![i] = apply(event, i, @)]
               /\ call' = [op |-> "apply", event |-> event, region_id |-> i,
                           n |-> call.n + 1]
    /\ UNCHANGED <<poolVars, rewardVars, dqnVars, num_regions, current_cycle, agents,
                   trade_network, event_history, cycle_history, stepResult, stepCalls,
                   twin, loop>>

\* trade_network.execute_trade(regions[a], regions[b], strength)
ExecuteTrade ==
    /\ call.n < MaxDirectCalls
    /\ \E a \in DOMAIN regions, b \in DOMAIN regions, strength \in DirectStrengths :
           /\ a # b
           /\ LET t == execute_trade(trade_network, regions, a, b, strength)
              IN  /\ regions' = t.regions
                  /\ trade_network' = t.net
           /\ call' = [op |-> "execute_trade", region_a |-> a, region_b |-> b,
                       strength |-> strength, n |-> call.n + 1]
    /\ UNCHANGED <<poolVars, rewardVars, dqnVars, num_regions, current_cycle, agents,
                   event_history, cycle_history, stepResult, stepCalls, twin, loop>>

---------------------------------------------------------------------------
(* The request handlers, routes.py. The module global `simulation` is the
   world held in the simulation variables; Init is the state after the startup
   handler has built it. Every handler is an `async def` without an await in
   its body, so the event loop runs a handler it has started to its end before
   it starts another. *)

\* WorldSimulation(num_regions=6) in startup_event and reset_simulation.
ApiNumRegions == 6

\* Python's seq[start:].
SliceFrom(seq, start) ==
    LET n == Len(seq)
        from == IF start < 0 THEN Max(0, n + start) ELSE Min(start, n)
    IN  SubSeq(seq, from + 1, n)

\* The entry get_world_state and get_events build for one event (without its
\* timestamp).
EventEntry(event) ==
    [type |-> event.event_type, affected_regions |-> event.affected_regions,
     severity |-> event.severity]

\* WorldSimulation.get_world_state
get_world_state(sim) ==
    [cycle |-> sim.current_cycle,
     regions |-> [i \in DOMAIN sim.regions |-> get_state_dict(sim.regions[i])],
     trade_network |-> sim.trade_network.edges,
     events |-> LET last == SliceFrom(sim.event_history, -10)
                IN  [j \in DOMAIN last |-> EventEntry(last[j])]]

\* WorldSimulation.get_statistics: the count of collapsed regions calls
\* region.is_critical() on each RegionState, which raises AttributeError when
\* RegionState has no such method and there is a region to ask. The averages
\* are left out of the body.
get_statistics(sim) ==
    IF sim.num_regions > 0 /\ "is_critical" \notin RegionStateMethods
    THEN [raised |-> "AttributeError", body |-> << >>]
    ELSE LET collapsed == Cardinality({ i \in DOMAIN sim.regions :
                                          is_critical(sim.regions[i].resources) })
         IN  [raised |-> "none",
              body |-> [cycle |-> sim.current_cycle,
                        collapsed_regions |-> collapsed,
                        active_regions |-> sim.num_regions - collapsed,
                        trade_connections |-> Cardinality(DOMAIN sim.trade_network.edges)]]

\* get_events(limit): Query(50, le=1000) refuses a limit above 1000 with 422;
\* the events are simulation.event_history[-limit:], in the history's order.
get_events(sim, limit) ==
    IF limit > 1000 THEN [status |-> 422, body |-> << >>]
    ELSE LET events == SliceFrom(sim.event_history, -limit)
         IN  [status |-> 200,
              body |-> [count |-> Len(events),
                        events |-> [j \in DOMAIN events |-> EventEntry(events[j])]]]

\* A plausible slip: the lookup done with setdefault, creating the entries.
GetRegionCreates(sim, region_id) ==
    LET made == NewRegion([water |-> 10000, food |-> 10000, energy |-> 10000,
                           population |-> 100, development_level |-> 10,
                           temperature |-> 20, rainfall |-> 100])
        sim1 == IF region_id \in DOMAIN sim.regions THEN sim
                ELSE [sim EXCEPT !.regions = (region_id :> made) @@ @,
                                 !.agents = (region_id :> NewAgent([a \in Actions |-> 0])) @@ @]
    IN  [sim |-> sim1, status |-> 200,
         body |-> [region |-> get_state_dict(sim1.regions[region_id]),
                   actions_taken |-> Len(sim1.agents[region_id].action_history),
                   epsilon |-> sim1.agents[region_id].dqn.epsilon]]

\* get_region(region_id): 404 for an id that is not a key of
\* simulation.regions, else the region's snapshot and its agent's statistics
\* (avg_reward and recent_actions are left out of the body).
get_region(sim, region_id) ==
    IF region_id \notin DOMAIN sim.regions
    THEN [sim |-> sim, status |-> 404, body |-> "Region not found"]
    ELSE [sim |-> sim, status |-> 200,
          body |-> [region |-> get_state_dict(sim.regions[region_id]),
                    actions_taken |-> Len(sim.agents[region_id].action_history),
                    epsilon |-> sim.agents[region_id].dqn.epsilon]]

\* A plausible slip: a reset that only rewinds the cycle counter and history.
ResetCycleOnly(sim, fresh) ==
    [sim |-> [sim EXCEPT !.current_cycle = 0, !.cycle_history = << >>],
     body |-> [status |-> "Reset successful", cycle |-> 0]]

\* reset_simulation: the global is rebound to the world just built.
reset_simulation(sim, fresh) ==
    [sim |-> fresh,
     body |-> [status |-> "Reset successful", cycle |-> fresh.current_cycle]]

\* A plausible slip: a handler that may start while another is suspended.
CanRunAlways(l) == TRUE

\* The event loop starts a handler only when none is running.
CanRun(l) == l.running = << >>

\* Bound on the requests of a run.
MaxRequests == 3

\* The worlds WorldSimulation(num_regions=6) builds that are tried: every
\* region with the same draws, the initial trades all established.
ApiWorlds ==
    { NewWorld(ApiNumRegions, [i \in RegionIds(ApiNumRegions) |-> d],
               [a \in Actions |-> (a - 4) * 50],
               [p \in InitialTradePairs(ApiNumRegions) |-> s]) :
        d \in RegionDraws, s \in TradeStrengthDraws }

\* The draws tried for a step() made by the step handler: a harvest of
\* severity 1.5 hitting region_0 or region_1 and region_0, the agent drawing
\* Invest in Water.
ApiAffectedDraws == { <<0>>, <<1, 0>> }

ApiStepOutcomes(w) ==
    { o \in StepOutcomes(w, {"harvest"}, {15}, {2}) :
        o.np[1] = << >> \/ o.np[1][1].affected_regions \in ApiAffectedDraws }

\* The requests tried: limits 0 and 2, region ids 0 (held) and 6 (not).
ApiRequests ==
    { [op |-> o] : o \in {"step", "state", "statistics", "reset"} }
    \cup { [op |-> "events", limit |-> l] : l \in {0, 2} }
    \cup { [op |-> "region", region_id |-> r] : r \in {0, 6} }

Pending(op) == { r \in loop.pending : r.req.op = op }

\* What the event loop records when the handler of request r has answered.
Served(r) ==
    [loop EXCEPT !.pending = @ \ {r}, !.running = << >>,
                 !.served = Append(@, r.req.op)]

ApiInit ==
    /\ \E w \in ApiWorlds :
           /\ IsWorld(w)
           /\ loop = [NoLoop EXCEPT !.between = w.regions]
    /\ stepResult = NoStepResult
    /\ stepCalls = 0
    /\ call = NoCall

\* A request reaches the server.
ApiArrive ==
    /\ loop.arrived < MaxRequests
    /\ \E req \in ApiRequests :
           loop' = [loop EXCEPT !.pending = @ \cup {[id |-> loop.arrived + 1, req |-> req]},
                                !.arrived = @ + 1]
    /\ UNCHANGED <<poolVars, rewardVars, dqnVars, worldVars, twin, call>>

\* step_simulation starts: simulation.step() has run _update_basic_resources
\* for every region.
ApiStepBegin ==
    /\ CanRun(loop)
    /\ \E r \in Pending("step") :
           loop' = [loop EXCEPT !.pending = @ \ {r},
                                !.running = <<[request |-> r, before |-> World]>>]
    /\ regions' = [i \in DOMAIN regions |-> update_basic_resources(regions[i])]
    /\ stepCalls' = stepCalls + 1
    /\ UNCHANGED <<poolVars, rewardVars, dqnVars, num_regions, current_cycle, agents,
                   trade_network, event_history, cycle_history, stepResult, twin, call>>

\* step_simulation ends: the rest of simulation.step(); what it raises is
\* caught and answered with status 500.
ApiStepEnd ==
    /\ loop.running # << >>
    /\ \E o \in ApiStepOutcomes(loop.running[1].before) :
           /\ BecomesWorld(o.w)
           /\ stepResult' = [raised |-> o.raised, ret |-> o.ret]
           /\ call' = [op |-> "step", status |-> IF o.raised = "none" THEN 200 ELSE 500,
                       body |-> o.ret, n |-> call.n + 1]
           /\ loop' = [Served(loop.running[1].request) EXCEPT
                          !.between = IF o.raised = "none" THEN o.w.regions ELSE @]
    /\ UNCHANGED <<poolVars, rewardVars, dqnVars, stepCalls, twin>>

\* get_world_state
ApiGetWorldState ==
    /\ CanRun(loop)
    /\ \E r \in Pending("state") :
           /\ call' = [op |-> "state", status |-> 200, body |-> get_world_state(World),
                       n |-> call.n + 1]
           /\ loop' = Served(r)
    /\ UNCHANGED <<poolVars, rewardVars, dqnVars, worldVars, twin>>

\* get_statistics: an exception leaving the handler is answered with 500.
ApiGetStatistics ==
    /\ CanRun(loop)
    /\ \E r \in Pending("statistics") :
           /\ LET s == get_statistics(World)
              IN  call' = [op |-> "statistics",
                           status |-> IF s.raised = "none" THEN 200 ELSE 500,
                           body |-> s.body, n |-> call.n + 1]
           /\ loop' = Served(r)
    /\ UNCHANGED <<poolVars, rewardVars, dqnVars, worldVars, twin>>

\* get_events
ApiGetEvents ==
    /\ CanRun(loop)
    /\ \E r \in Pending("events") :
           /\ LET g == get_events(World, r.req.limit)
              IN  call' = [op |-> "events", limit |-> r.req.limit, status |-> g.status,
                           body |-> g.body, n |-> call.n + 1]
           /\ loop' = Served(r)
    /\ UNCHANGED <<poolVars, rewardVars, dqnVars, worldVars, twin>>

\* get_region
ApiGetRegion ==
    /\ CanRun(loop)
    /\ \E r \in Pending("region") :
           /\ LET g == get_region(World, r.req.region_id)
              IN  /\ BecomesWorld(g.sim)
                  /\ call' = [op |-> "region", region_id |-> r.req.region_id,
                              status |-> g.status, body |-> g.body, n |-> call.n + 1]
           /\ loop' = Served(r)
    /\ UNCHANGED <<poolVars, rewardVars, dqnVars, stepResult, stepCalls, twin>>

\* reset_simulation
ApiReset ==
    /\ CanRun(loop)
    /\ \E r \in Pending("reset"), fresh \in ApiWorlds :
           LET g == reset_simulation(World, fresh)
           IN  /\ BecomesWorld(g.sim)
               /\ call' = [op |-> "reset", status |-> 200, body |-> g.body,
                           n |-> call.n + 1]
               /\ loop' = [Served(r) EXCEPT !.between = g.sim.regions]
    /\ UNCHANGED <<poolVars, rewardVars, dqnVars, stepResult, stepCalls, twin>>

---------------------------------------------------------------------------
(* The TradeNetwork of a two-region world under direct add_region,
   establish_trade and execute_trade calls, with step() calls in between. *)

\* Bound on the calls of a run.
MaxNetworkCalls == 3

\* The strengths passed to establish_trade (tenths): the ends of [0, 1] and
\* one value inside, each different from the 0.5 of the initial trades.
EstablishStrengths == {0, 3, 10}

\* The ids passed to add_region: one the graph holds, one it does not.
AddRegionIds == {0, 2}

\* step() as drawn here: no event or a harvest of severity 1.5, the agent's
\* draw Invest in Water.
NetworkStepOutcomes(w) == StepOutcomes(w, {"harvest"}, {15}, {2})

\* trade_network.add_region(region_id)
AddRegion ==
    /\ call.n < MaxNetworkCalls
    /\ \E region_id \in AddRegionIds :
           /\ trade_network' = add_region(trade_network, region_id)
           /\ call' = [op |-> "add_region", region_id |-> region_id, n |-> call.n + 1]
    /\ UNCHANGED <<poolVars, rewardVars, dqnVars, num_regions, current_cycle, regions,
                   agents, event_history, cycle_history, stepResult, stepCalls, twin,
                   loop>>

\* trade_network.establish_trade(a, b, strength)
EstablishTrade ==
    /\ call.n < MaxNetworkCalls
    /\ \E a \in DOMAIN regions, b \in DOMAIN regions, strength \in EstablishStrengths :
           /\ a # b
           /\ trade_network' = establish_trade(trade_network, a, b, strength)
           /\ call' = [op |-> "establish_trade", region_a |-> a, region_b |-> b,
                       strength |-> strength,
                       replaced |-> IF <<a, b>> \in DOMAIN trade_network.edges
                                    THEN <<trade_network.edges[<<a, b>>]>> ELSE << >>,
                       n |-> call.n + 1]
    /\ UNCHANGED <<poolVars, rewardVars, dqnVars, num_regions, current_cycle, regions,
                   agents, event_history, cycle_history, stepResult, stepCalls, twin,
                   loop>>

\* trade_network.execute_trade(regions[a], regions[b], strength)
NetworkExecuteTrade ==
    /\ call.n < MaxNetworkCalls
    /\ \E a \in DOMAIN regions, b \in DOMAIN regions :
           /\ a # b
           /\ LET t == execute_trade(trade_network, regions, a, b, 5)
              IN  /\ regions' = t.regions
                  /\ trade_network' = t.net
           /\ call' = [op |-> "execute_trade", region_a |-> a, region_b |-> b,
                       strength |-> 5, n |-> call.n + 1]
    /\ UNCHANGED <<poolVars, rewardVars, dqnVars, num_regions, current_cycle, agents,
                   event_history, cycle_history, stepResult, stepCalls, twin, loop>>

\* simulation.step()
NetworkStep ==
    /\ call.n < MaxNetworkCalls
    /\ \E o \in NetworkStepOutcomes(World) :
           /\ BecomesWorld(o.w)
           /\ stepResult' = [raised |-> o.raised, ret |-> o.ret]
    /\ stepCalls' = stepCalls + 1
    /\ call' = [op |-> "step", n |-> call.n + 1]
    /\ UNCHANGED <<poolVars, rewardVars, dqnVars, twin, loop>>

---------------------------------------------------------------------------
(* _generate_climatic_event called directly on worlds of two and of six
   regions. *)

\* Bound on the calls of a run.
MaxEventCalls == 2

\* num_regions values tried.
EventRegionCounts == {2, 6}

\* The worlds the calls are made on: every region with the same draws, no
\* initial trade established.
EventWorlds ==
    { NewWorld(n, [i \in RegionIds(n) |-> d], [a \in Actions |-> 0],
               [p \in InitialTradePairs(n) |-> 0]) :
        n \in EventRegionCounts, d \in RegionDraws }

EventInit ==
    /\ \E w \in EventWorlds : IsWorld(w)
    /\ stepResult = NoStepResult
    /\ stepCalls = 0
    /\ ApiIdle

\* The values num_affected can take over the draws of np.random.randint.
AffectedCounts(w) ==
    { Len(ev[1].affected_regions) :
        ev \in generate_climatic_event(w, {"drought"}, {10}) \ { << >> } }

\* simulation._generate_climatic_event(): ret is what it returned, counts the
\* values num_affected can take in this world.
GenerateEvent ==
    /\ call.n < MaxEventCalls
    /\ \E ev \in generate_climatic_event(World, EventTypes, SeverityDraws) :
           call' = [op |-> "generate", ret |-> ev, counts |-> AffectedCounts(World),
                    n |-> call.n + 1]
    /\ UNCHANGED <<poolVars, rewardVars, dqnVars, worldVars, twin, loop>>

---------------------------------------------------------------------------
(* A RegionalAgent built on its own and driven by learn calls until its
   buffer holds more than the 32 transitions of a replay batch, next to a
   two-region world driven by step(). *)

\* Bounds on the learn calls and on the step() calls of a run.
MaxLearnCalls == 34
MaxLearnSteps == 1

\* The number of learn calls made so far.
LearnCalls == IF dqnCall.op = "new" THEN 0 ELSE dqnCall.n

\* The transitions passed to learn: one per call while the buffer fills, then
\* either of two.
LearnTransitions ==
    IF LearnCalls < replay_batch_size - 2
    THEN { [state |-> 6000, action |-> LearnCalls % action_size,
            reward |-> 1000 * (LearnCalls + 1), next_state |-> 6000, done |-> FALSE] }
    ELSE LearnerTransitions

\* random.sample(memory, 32) inside the replay of learn, for the buffer d
\* holds: the samples tried are the 32 oldest in order and the 32 newest,
\* newest first.
LearnSamples(d) ==
    IF Len(d.memory) < replay_batch_size THEN { << >> }
    ELSE { [i \in 1 .. replay_batch_size |-> i],
           [i \in 1 .. replay_batch_size |-> Len(d.memory) + 1 - i] }

LearnInit ==
    /\ \E w \in NewWorlds(2) : IsWorld(w)
    /\ stepResult = NoStepResult
    /\ stepCalls = 0
    /\ ApiIdle

\* regionalAgent.learn(state, action, reward, next_state, done); ret is the
\* loss it returns, that of its replay(32).
LearnCall ==
    /\ LearnCalls < MaxLearnCalls
    /\ \E t \in LearnTransitions :
         \E sample \in LearnSamples(remember(regionalAgent.dqn, t)) :
           /\ regionalAgent' = learn(regionalAgent, t.state, t.action, t.reward,
                                     t.next_state, t.done, sample)
           /\ dqnCall' = [op |-> "learn", batch_size |-> replay_batch_size,
                          transition |-> t,
                          ret |-> replay(remember(regionalAgent.dqn, t),
                                         replay_batch_size, sample).ret,
                          n |-> LearnCalls + 1]
    /\ UNCHANGED <<dqn, poolVars, rewardVars, worldVars, twin, call, loop>>

\* simulation.step()
LearnStep ==
    /\ stepCalls < MaxLearnSteps
    /\ \E o \in NetworkStepOutcomes(World) :
           /\ BecomesWorld(o.w)
           /\ stepResult' = [raised |-> o.raised, ret |-> o.ret]
    /\ stepCalls' = stepCalls + 1
    /\ UNCHANGED <<poolVars, rewardVars, dqnVars, twin, call, loop>>

---------------------------------------------------------------------------
(* Specifications *)

\* A ResourcePool under deplete / replenish calls.
InitPool == PoolInit /\ RewardIdle /\ DqnIdle /\ WorldIdle /\ twin = NoTwin /\ ApiIdle
NextPool == PoolDeplete \/ PoolReplenish
SpecPool == InitPool /\ [][NextPool]_vars

\* calculate_reward applied to the arguments drawn.
InitReward == PoolIdle /\ RewardInit /\ DqnIdle /\ WorldIdle /\ twin = NoTwin /\ ApiIdle
NextReward == CalculateReward \/ NextRewardArgs
SpecReward == InitReward /\ [][NextReward]_vars

\* A DQNAgent under remember / act / replay calls.
InitLearner == PoolIdle /\ RewardIdle /\ DqnInit /\ WorldIdle /\ twin = NoTwin /\ ApiIdle
NextLearner == DqnRemember \/ DqnAct \/ DqnReplay
SpecLearner == InitLearner /\ [][NextLearner]_vars

\* A DQNAgent replaying one stored transition until epsilon stops decaying.
InitDecay == PoolIdle /\ RewardIdle /\ DqnIdle /\ WorldIdle /\ twin = NoTwin /\ ApiIdle
NextDecay == DecayRemember \/ DecayReplay
SpecDecay == InitDecay /\ [][NextDecay]_vars

\* A WorldSimulation under step() calls.
Init == PoolIdle /\ RewardIdle /\ DqnIdle /\ WorldInit /\ twin = NoTwin /\ ApiIdle
Next == Step
Spec == Init /\ [][Next]_vars

\* Two same-seed simulations stepped side by side.
InitTwin == PoolIdle /\ RewardIdle /\ DqnIdle /\ TwinInit /\ ApiIdle
NextTwin == TwinStep
SpecTwin == InitTwin /\ [][NextTwin]_vars

\* ClimaticEvent.apply and TradeNetwork.execute_trade called directly.
InitDirect == PoolIdle /\ RewardIdle /\ DqnIdle /\ DirectInit /\ twin = NoTwin
NextDirect == ApplyEvent \/ ExecuteTrade
SpecDirect == InitDirect /\ [][NextDirect]_vars

\* A ResourcePool around the critical threshold under deplete / replenish /
\* is_critical calls.
InitCritical == CriticalInit /\ RewardIdle /\ DqnIdle /\ WorldIdle /\ twin = NoTwin /\ ApiIdle
NextCritical == CriticalDeplete \/ CriticalReplenish \/ IsCritical
SpecCritical == InitCritical /\ [][NextCritical]_vars

\* The server: requests arriving and the handlers answering them.
InitApi == PoolIdle /\ RewardIdle /\ DqnIdle /\ ApiInit /\ twin = NoTwin
NextApi ==
    \/ ApiArrive
    \/ ApiStepBegin
    \/ ApiStepEnd
    \/ ApiGetWorldState
    \/ ApiGetStatistics
    \/ ApiGetEvents
    \/ ApiGetRegion
    \/ ApiReset
SpecApi == InitApi /\ [][NextApi]_vars

\* The TradeNetwork called directly, step() calls in between.
InitNetwork == PoolIdle /\ RewardIdle /\ DqnIdle /\ DirectInit /\ twin = NoTwin
NextNetwork == AddRegion \/ EstablishTrade \/ NetworkExecuteTrade \/ NetworkStep
SpecNetwork == InitNetwork /\ [][NextNetwork]_vars

\* A DQNAgent under remember calls alone, past the capacity of its buffer.
InitBuffer == PoolIdle /\ RewardIdle /\ DqnIdle /\ WorldIdle /\ twin = NoTwin /\ ApiIdle
NextBuffer == BufferRemember
SpecBuffer == InitBuffer /\ [][NextBuffer]_vars

\* _generate_climatic_event called directly.
InitEvents == PoolIdle /\ RewardIdle /\ DqnIdle /\ EventInit /\ twin = NoTwin
NextEvents == GenerateEvent
SpecEvents == InitEvents /\ [][NextEvents]_vars

\* A RegionalAgent under learn calls, a world under step() calls.
InitLearn == PoolIdle /\ RewardIdle /\ DqnIdle /\ LearnInit /\ twin = NoTwin
NextLearn == LearnCall \/ LearnStep
SpecLearn == InitLearn /\ [][NextLearn]_vars

\* The long run.
InitRun == PoolIdle /\ RewardIdle /\ DqnIdle /\ RunInit /\ twin = NoTwin /\ ApiIdle
NextRun == RunStep
SpecRun == InitRun /\ [][NextRun]_vars

---------------------------------------------------------------------------
(* Claims *)

\* C1: in every state reached from construction by step() calls, each
\* region's water, food, energy and land lies in [0, its cap].
C1_StocksWithinCaps == \A i \in DOMAIN regions : PoolWithinCaps(regions[i].resources)

\* C2: step() never fails: every call made has returned a cycle report and
\* raised nothing.
C2_StepNeverFails ==
    stepCalls > 0 => (stepResult.raised = "none" /\ Len(stepResult.ret) = 1)

\* C3: every step() call increments the cycle counter by exactly 1 and
\* appends exactly one report to the cycle history.
C3_StepAdvancesCycle ==
    [][stepCalls' = stepCalls + 1 =>
           /\ current_cycle' = current_cycle + 1
           /\ Len(cycle_history') = Len(cycle_history) + 1]_vars

\* C4: two simulations built with the same seed and region count and stepped
\* the same number of times agree: step() ended the same way in both, with the
\* same report, and left the same regions, events and cycle history (what the
\* reports are made of).
C4_SameSeedSameCycles ==
    /\ twin.stepResult = stepResult
    /\ twin.w.cycle_history = cycle_history
    /\ twin.w.event_history = event_history
    /\ twin.w.regions = regions

\* C5: in every reachable state every region's population is >= 0.
C5_PopulationNonNegative == \A i \in DOMAIN regions : regions[i].population >= 0

\* C6: a ResourcePool that starts within bounds stays within [0, cap] for each
\* of water, food, energy and land under any sequence of deplete and replenish
\* calls with non-negative amounts.
C6_PoolStaysWithinCaps == PoolWithinCaps(pool)

\* A deplete asking for more water than the pool holds left it at 0, in a pool
\* whose food an earlier replenish had brought to the cap.
C6_Witness ==
    /\ poolCall.op = "deplete" /\ poolCall.water = 25000
    /\ pool.water = 0 /\ pool.food = max_food

\* C7: epsilon never falls below epsilon_min (0.01) after any number of replay
\* calls starting from 1.0 with decay 0.995.
C7_EpsilonAtLeastMin == dqn.epsilon >= epsilon_min

\* C8: epsilon starts at 1.0, no remember, act or replay call raises it, and
\* only replay changes it.
C8_EpsilonNonIncreasing ==
    /\ dqnCall.op = "new" => dqn.epsilon = EpsilonOne
    /\ [][/\ dqn'.epsilon <= dqn.epsilon
          /\ dqn'.epsilon # dqn.epsilon => dqnCall'.op = "replay"]_vars

\* Two replay calls have decayed epsilon and a remember call has followed.
C8_Witness ==
    /\ dqnCall.op = "remember"
    /\ Len(dqn.loss_history) = 2
    /\ dqn.epsilon < EpsilonOne

\* C9: replay(batch_size) on a buffer holding fewer than batch_size transitions
\* returns 0.0 and leaves epsilon, the action values, the loss history and the
\* buffer as they were.
C9_ReplayNoOpOnSmallBuffer ==
    [][(dqnCall'.op = "replay" /\ Len(dqn.memory) < dqnCall'.batch_size)
           => (dqnCall'.ret = 0 /\ dqn' = dqn)]_vars

\* replay(32) returned 0 on a buffer of two transitions that earlier, smaller
\* replays had trained on.
C9_Witness ==
    /\ dqnCall.op = "replay" /\ dqnCall.batch_size = replay_batch_size
    /\ dqnCall.ret = 0
    /\ Len(dqn.memory) = 2
    /\ Len(dqn.loss_history) >= 1

\* C10: calculate_reward returns a value in [-10, 10] whatever the arguments,
\* and the value is the clamped sum of resource health * 3, stability * 2, the
\* population term and a penalty of -5 iff food < 100 plus -3 iff energy < 100.
C10_RewardClampedWithPenalty ==
    rewardCall.returned =>
        LET a == rewardCall.args
            penalty == (IF a.food < 1000 THEN -5 ELSE 0)
                       + (IF a.energy < 1000 THEN -3 ELSE 0)
            sum == a.water + a.food + a.energy + 400 * a.stability
                   + (IF a.population < 500 THEN 20 * a.population ELSE 10000)
                   + 20000 * penalty
        IN  /\ -200000 <= rewardCall.ret /\ rewardCall.ret <= 200000
            /\ sum < -200000 => rewardCall.ret = -200000
            /\ sum > 200000 => rewardCall.ret = 200000
            /\ (-200000 <= sum /\ sum <= 200000) => rewardCall.ret = sum

\* All stocks 0, stability 0.8, population 100: both penalties apply and the
\* reward is 0 + 1.6 + 0.1 - 8 = -6.3, inside the clamp.
C10_Witness ==
    /\ rewardCall.returned
    /\ rewardCall.args = [water |-> 0, food |-> 0, energy |-> 0,
                          stability |-> 80, population |-> 100]
    /\ rewardCall.ret = -126000

C12_UnaffectedRegionUnchanged ==
    [][(call'.op = "apply"
        /\ call'.region_id \notin Range(call'.event.affected_regions))
           => regions' = regions]_vars

\* A plague of severity 1.5 listing only region 0 was applied to region 1.
C12_Witness ==
    /\ call.op = "apply" /\ call.region_id = 1
    /\ call.event = [event_type |-> "plague", affected_regions |-> <<0>>, severity |-> 15]

\* C13: apply on an affected region whose stocks are within [0, cap] leaves
\* them within [0, cap]: deltas are clamped at 0 and at the cap.
C13_EventDeltasClamped ==
    [][(/\ call'.op = "apply"
        /\ call'.region_id \in Range(call'.event.affected_regions)
        /\ PoolWithinCaps(regions[call'.region_id].resources))
           => PoolWithinCaps(regions'[call'.region_id].resources)]_vars

\* C14: the regions part of the report a step() call returns is the state of
\* every region at the moment the call returns: each step() call made has
\* returned a report, and the report's snapshot of region i is region i as the
\* call left it.
C14_ReportHoldsPostCycleState ==
    stepCalls > 0 =>
        /\ Len(stepResult.ret) = 1
        /\ \A i \in DOMAIN regions :
               /\ i + 1 \in DOMAIN stepResult.ret[1].regions
               /\ stepResult.ret[1].regions[i + 1] = get_state_dict(regions[i])

\* C19: is_critical() returns true exactly when water < 100 or food < 100 or
\* energy < 100, whatever the land and whatever was returned before.
C19_CriticalIffBelowHundred ==
    poolCall.op = "is_critical" =>
        (poolCall.log[Len(poolCall.log)]
            <=> (pool.water < 1000 \/ pool.food < 1000 \/ pool.energy < 1000))

\* A pool with no land was reported critical and, once water, food and energy
\* were all back at exactly 100, not critical.
C19_Witness ==
    /\ poolCall.op = "is_critical"
    /\ pool.land = 0
    /\ pool.water = 1000 /\ pool.food = 1000 /\ pool.energy = 1000
    /\ Len(poolCall.log) = 2
    /\ poolCall.log[1] = TRUE /\ poolCall.log[2] = FALSE

\* C15: step() is a critical section of the server: a state or statistics
\* read, a reset and a second step() are served only while no step() is in
\* progress, so the regions a state read returns are those of the world between
\* complete cycles (as built, or as the last completed step() left them).
C15_StepIsCriticalSection ==
    /\ [][((call'.n # call.n /\ call'.op # "step") \/ stepCalls' # stepCalls)
              => loop.running = << >>]_vars
    /\ [](call.op = "state" =>
              call.body.regions = [i \in DOMAIN loop.between |->
                                      get_state_dict(loop.between[i])])

\* C16: reset() after any requests leaves a fresh world with the region count
\* it had, cycle 0 and empty cycle, event, trade and agent histories, and
\* answers cycle 0.
C16_ResetYieldsFreshWorld ==
    [][call'.op = "reset" /\ call'.n # call.n =>
           /\ num_regions' = num_regions
           /\ DOMAIN regions' = RegionIds(num_regions)
           /\ World' \in ApiWorlds
           /\ current_cycle' = 0
           /\ cycle_history' = << >>
           /\ event_history' = << >>
           /\ trade_network'.trade_history = << >>
           /\ \A i \in DOMAIN agents' :
                  /\ agents'[i].action_history = << >>
                  /\ agents'[i].reward_history = << >>
                  /\ agents'[i].dqn.memory = << >>
           /\ call'.body.cycle = 0]_vars

\* A reset was served after two step requests: no event is held any more and
\* the regions are those of the world just built.
C16_Witness ==
    /\ call.op = "reset"
    /\ loop.served = <<"step", "step", "reset">>
    /\ stepCalls = 2
    /\ event_history = << >>
    /\ regions = loop.between

\* C17: the event history query with limit L >= 0 returns min(L, total)
\* events, the most recent ones, most recent first, and count is their number.
C17_EventsNewestFirstUpToLimit ==
    call.op = "events" =>
        LET total == Len(event_history)
            k == Min(call.limit, total)
        IN  /\ call.status = 200
            /\ call.body.count = k
            /\ DOMAIN call.body.events = 1 .. k
            /\ \A j \in 1 .. k :
                   call.body.events[j] = EventEntry(event_history[total - j + 1])

\* C18: a region query for an id that is not a key of the regions map is
\* answered not-found, one for a held id is answered with the region, neither
\* changes the simulation, and the regions map and the agents map hold the
\* same ids, those made at construction.
C18_UnknownRegionNotFound ==
    /\ [](DOMAIN regions = RegionIds(num_regions) /\ DOMAIN agents = DOMAIN regions)
    /\ [][call'.op = "region" /\ call'.n # call.n =>
              /\ call'.status = (IF call'.region_id \in DOMAIN regions THEN 200 ELSE 404)
              /\ UNCHANGED worldVars]_vars

\* Region id 6 was asked for after a step request: answered 404, six regions
\* held.
C18_Witness ==
    /\ call.op = "region" /\ call.region_id = 6 /\ call.status = 404
    /\ loop.served = <<"step", "region">>
    /\ DOMAIN regions = 0 .. 5

C22_BufferBoundedFifo ==
    LET n == RememberCalls
        size == Len(dqn.memory)
    IN  /\ size = Min(n, memory_maxlen)
        /\ \A j \in 1 .. size : dqn.memory[j].reward = n - size + j

\* Two remember calls made on a full buffer: the transitions of calls 1 and 2
\* are gone, that of call 3 is the oldest held.
C22_Witness ==
    /\ RememberCalls = memory_maxlen + 2
    /\ Len(dqn.memory) = memory_maxlen
    /\ dqn.memory[1].reward = 3
    /\ dqn.memory[memory_maxlen].reward = memory_maxlen + 2

\* C23: when a climatic event is generated, the number of affected regions can
\* be any integer k with 1 <= k <= max(2, region_count/2), the upper end
\* included (k <= 2 or 2k <= region_count), and no other; the affected ids are
\* pairwise distinct ids of existing regions.
C23_AffectedCountRange ==
    call.op = "generate" =>
        /\ call.counts = { k \in 1 .. (num_regions + 2) : k <= 2 \/ 2 * k <= num_regions }
        /\ call.ret # << >> =>
               LET affected == call.ret[1].affected_regions
               IN  /\ \A j \in 1 .. Len(affected) : affected[j] \in DOMAIN regions
                   /\ \A i, j \in 1 .. Len(affected) :
                          i # j => affected[i] # affected[j]

\* C24: the set of regions is fixed at construction: the regions map and the
\* agents map hold the same num_regions keys in every state, no step() (nor
\* any other call) changes them or num_regions, and every step() call applies
\* the natural dynamics to every region, critical ones included (with a
\* harvest as the only event and Invest in Water as the action, the
\* population a step() leaves is the one _update_basic_resources computed).
C24_RegionSetFixed ==
    /\ [](/\ DOMAIN regions = RegionIds(num_regions)
          /\ DOMAIN agents = DOMAIN regions)
    /\ [][/\ num_regions' = num_regions
          /\ DOMAIN regions' = DOMAIN regions
          /\ DOMAIN agents' = DOMAIN agents
          /\ stepCalls' = stepCalls + 1 =>
                 \A i \in DOMAIN regions :
                     regions'[i].population =
                         update_basic_resources(regions[i]).population]_vars

\* Three step() calls on two regions of population 80 and energy 800: both
\* ran out of energy in the second, are critical, and were stepped again by
\* the third (population 83).
C24_Witness ==
    /\ stepCalls = 3
    /\ DOMAIN regions = {0, 1}
    /\ DOMAIN agents = {0, 1}
    /\ \A i \in DOMAIN regions :
           /\ is_critical(regions[i].resources)
           /\ regions[i].resources.energy = 0
           /\ regions[i].population = 83

\* C25: the trade log is append-only: an execute_trade call appends exactly
\* one entry (region A id, region B id, strength; the timestamp is left out of
\* the model), every other call of the Trade Network and every step() leaves
\* the entries already there in place and unchanged, and one step() appends
\* at most as many entries as there are unordered trading-partner pairs.
C25_TradeLogAppendOnly ==
    [][LET old == trade_network.trade_history
           new == trade_network'.trade_history
       IN  /\ Len(new) >= Len(old)
           /\ SubSeq(new, 1, Len(old)) = old
           /\ call'.op = "execute_trade" =>
                  new = Append(old, [region_a |-> call'.region_a,
                                     region_b |-> call'.region_b,
                                     strength |-> call'.strength])
           /\ call'.op \in {"add_region", "establish_trade"} => new = old
           /\ call'.op = "step" =>
                  Len(new) - Len(old) <= Cardinality(TradePairs(World))]_vars

\* Two trades logged, in the order they were made, and a step() call after
\* them that left both entries as they were.
C25_Witness ==
    /\ call.op = "step"
    /\ call.n = 3
    /\ Len(trade_network.trade_history) = 2
    /\ trade_network.trade_history[1].region_a = 0
    /\ trade_network.trade_history[2].region_a = 1

\* C26: in every reachable state the cycle history is as long as the cycle
\* counter says and its i-th report (0-based) carries cycle index i; the k-th
\* step() call returned a report carrying cycle index k - 1; the counter is 0
\* exactly when no step() has completed.
C26_HistoryMatchesCounter ==
    /\ Len(cycle_history) = current_cycle
    /\ \A i \in 1 .. Len(cycle_history) : cycle_history[i].cycle = i - 1
    /\ stepCalls >= 1 =>
           /\ stepResult.ret # << >>
           /\ stepResult.ret[1].cycle = stepCalls - 1
    /\ stepCalls = 0 => current_cycle = 0
    /\ (stepCalls >= 1 /\ stepResult.raised = "none") => current_cycle > 0

\* C27: after k completed step() calls (k is the cycle counter) every agent of
\* the world has an action_history and a reward_history of length k and a
\* buffer of min(k, 2000) transitions, and every cycle report has one action
\* entry per region; each learn call appends its action and its reward to the
\* two histories, stores its transition, and runs replay(32) exactly once:
\* below 32 stored transitions nothing else changes and the loss is 0, from 32
\* on one loss is recorded and returned and epsilon has decayed once.
C27_LearnOncePerCall ==
    /\ [](\A i \in DOMAIN agents :
              /\ Len(agents[i].action_history) = current_cycle
              /\ Len(agents[i].reward_history) = current_cycle
              /\ Len(agents[i].dqn.memory) = Min(current_cycle, memory_maxlen))
    /\ [](\A j \in 1 .. Len(cycle_history) :
              Len(cycle_history[j].actions) = num_regions)
    /\ [][dqnCall' # dqnCall =>
              LET t == dqnCall'.transition
                  d1 == remember(regionalAgent.dqn, t)
                  d2 == regionalAgent'.dqn
              IN  /\ regionalAgent'.action_history =
                         Append(regionalAgent.action_history, t.action)
                  /\ regionalAgent'.reward_history =
                         Append(regionalAgent.reward_history, t.reward)
                  /\ d2.memory = d1.memory
                  /\ IF Len(d1.memory) < replay_batch_size
                     THEN d2 = d1 /\ dqnCall'.ret = 0
                     ELSE /\ Len(d2.loss_history) = Len(d1.loss_history) + 1
                          /\ dqnCall'.ret = d2.loss_history[Len(d2.loss_history)]
                          /\ d2.epsilon = DecayEpsilon(d1.epsilon)]_vars

\* 34 learn calls made on the agent, a step() call made on the world: both
\* histories hold 34 elements, and the calls from the 32nd on have each run
\* one replay (three losses recorded).
C27_Witness ==
    /\ dqnCall.op = "learn"
    /\ dqnCall.n = 34
    /\ stepCalls = 1
    /\ Len(regionalAgent.action_history) = 34
    /\ Len(regionalAgent.reward_history) = 34
    /\ Len(regionalAgent.dqn.memory) = 34
    /\ Len(regionalAgent.dqn.loss_history) = 3

====
